---- MODULE Spec2Model ----
(***************************************************************************)
(* vcfgrpaf (src/src/main.rs): per-group allele statistics written into    *)
(* the INFO column of every record of a VCF.                               *)
(*                                                                         *)
(* main is modelled as a sequential program: one action per phase          *)
(* (labels, VCF header, strict check, masks, output header, writer) and    *)
(* one action per step of the record loop (fetch, one group, write).       *)
(* calc_af and calc_hwe are pure functions and are operators.              *)
(***************************************************************************)
EXTENDS Integers, Sequences, FiniteSets, TLC

\* ------------------------------------------------------------------ bounds
\* rows of the label file
MaxRows == 2
\* records of the VCF stream
MaxRecords == 2

\* ------------------------------------------------------------------ inputs
\* Option::None of an allele slot, and GenotypeAllele::*Missing of a raw call.
None == -1
Missing == -1
\* Option<[Option<u8>; 2]>::None of a whole call.
NoneGt == <<>>

\* opts.tags, already cut at its commas; <<"all">> is the string "all".
TagSelections == {<<"all">>, <<"AC", "MAC">>, <<"AF", "FOO">>}

\* names a label row may carry; "Z" is in no dataset below
LabelSamples == {"A", "Z"}
LabelGroups == {"G1", "G2"}
LabelRows == LabelSamples \X LabelGroups
LabelFiles == UNION {[1..n -> LabelRows] : n \in 0..MaxRows}

\* the sample order of the VCF header
DatasetSamples == <<"A", "B">>
\* raw genotype calls of one sample: the allele indices htslib hands out
PipelineCalls ==
    {<<Missing, Missing>>, <<0, 1>>, <<1>>, <<2, 0>>, <<256, 1>>}
PipelineRecords ==
    [n_alt : 0..2, gts : [1..Len(DatasetSamples) -> PipelineCalls]]

\* the wider genotype alphabet used to exercise calc_af
AfSamples == <<"A", "B", "C">>
AfAlleles == {Missing, 0, 1, 2}
AfCalls == [1..1 -> AfAlleles] \cup [1..2 -> AfAlleles]
AfRecords == [n_alt : {1}, gts : [1..Len(AfSamples) -> AfCalls]]
AfLabelFiles ==
    { <<<<"A", "G1">>, <<"B", "G1">>, <<"C", "G1">>>>,
      <<<<"A", "G1">>, <<"B", "G2">>, <<"C", "G1">>, <<"B", "G1">>>> }

\* ------------------------------------------------------------- AfStats
\* f64 values are kept as exact ratios num/den.
Ratio(n, d) == [num |-> n, den |-> d]
ZeroF == Ratio(0, 1)
OneF == Ratio(1, 1)

\* AfStats::default(); panic is the fold's "index out of bounds" outcome.
AfDefault ==
    [ac |-> [i \in 0..1 |-> 0], an |-> 0, n_hemi |-> 0, n_homref |-> 0,
     n_het |-> 0, n_homalt |-> 0, n_miss |-> 0, af |-> ZeroF, maf |-> ZeroF,
     mac |-> 0, exc_het |-> ZeroF, hwe |-> ZeroF,
     panic |-> FALSE, wrapped |-> FALSE]

Min(a, b) == IF a <= b THEN a ELSE b

\* u32 arithmetic, on two 16-bit limbs (the model checker's integers are
\* 32-bit signed): a release build wraps modulo 2^32, a debug build panics.
Limb == 65536
U32(x) == [hi |-> x \div Limb, lo |-> x % Limb]
IsZero32(a) == a.hi = 0 /\ a.lo = 0
SubOverflows(a, b) == a.hi < b.hi \/ (a.hi = b.hi /\ a.lo < b.lo)
WrappingSub(a, b) ==
    LET lo == a.lo - b.lo
        borrow == IF lo < 0 THEN 1 ELSE 0
    IN [hi |-> (a.hi - b.hi - borrow) % Limb, lo |-> lo % Limb]
WrappingAdd(a, b) ==
    LET lo == a.lo + b.lo
    IN [hi |-> (a.hi + b.hi + (lo \div Limb)) % Limb, lo |-> lo % Limb]
Half32(a) ==
    [hi |-> a.hi \div 2, lo |-> (a.lo \div 2) + (a.hi % 2) * (Limb \div 2)]

\* f64::NAN
NaN == [nan |-> TRUE]
\* p = exp(-0.5 * chi_sq) is kept as ExpNegHalf(chi_sq)
ExpNegHalf(chi_sq) == [exp_neg_half_of |-> chi_sq]

\* p < 1e-6, i.e. chi_sq > 12 ln 10 = 27.63102111592854820..., decided on
\* the decimal expansion of the ratio
LnDigits == <<6, 3, 1, 0, 2, 1, 1, 1, 5, 9, 2, 8, 5, 4, 8, 2, 0>>
RECURSIVE FracExceeds(_, _, _)
FracExceeds(r, den, i) ==
    IF i > Len(LnDigits) THEN FALSE
    ELSE LET d == (r * 10) \div den
         IN IF d > LnDigits[i] THEN TRUE
            ELSE IF d < LnDigits[i] THEN FALSE
            ELSE FracExceeds((r * 10) % den, den, i + 1)
PBelowThreshold(chi) ==
    LET q == chi.num \div chi.den
    IN IF q > 27 THEN TRUE
       ELSE IF q < 27 THEN FALSE
       ELSE FracExceeds(chi.num % chi.den, chi.den, 1)

\* calc_hwe. `wrapped`: a subtraction went below zero, where a debug build
\* panics ("attempt to subtract with overflow") and a release build goes on
\* with the wrapped operands.
calc_hwe(ac0, ac1, n_het) ==
    LET h == U32(n_het)
        n_homref == Half32(WrappingSub(U32(ac0), h))
        n_homalt == Half32(WrappingSub(U32(ac1), h))
        n == WrappingAdd(WrappingAdd(n_homref, h), n_homalt)
        wrapped == SubOverflows(U32(ac0), h) \/ SubOverflows(U32(ac1), h)
        \* 2.0 * ac0 * ac1 and (2 * n) as f64
        en == 2 * ac0 * ac1
        two_n == WrappingAdd(n, n)
    IN IF IsZero32(n)
       THEN [exc_het |-> ZeroF, hwe |-> ZeroF, wrapped |-> wrapped]
       ELSE IF IsZero32(two_n)
       \* exp_het is 0/0 = NaN or x/0 = inf: chi_sq and p are NaN, and
       \* NaN < 1e-6 is false
       THEN [exc_het |-> OneF, hwe |-> NaN, wrapped |-> wrapped]
       ELSE
         LET chi ==
               CASE two_n.hi < Limb \div 2 ->
                      LET ed == two_n.hi * Limb + two_n.lo
                          dev == n_het * ed - en
                      IN IF en >= ed THEN Ratio(dev * dev, ed * en)
                         ELSE Ratio(dev * dev, ed * ed)
                 \* exp_het = 0.0 / (2n) = 0.0 whatever 2n is
                 [] two_n.hi >= Limb \div 2 /\ en = 0 ->
                      Ratio(n_het * n_het, 1)
         IN [exc_het |-> IF PBelowThreshold(chi) THEN ZeroF ELSE OneF,
             hwe |-> ExpNegHalf(chi), wrapped |-> wrapped]

\* st.an += 1; st.ac[x as usize] += 1;  (an index outside ac panics)
AddAllele_NoAn(st, x) ==
    IF x \in DOMAIN st.ac
    THEN [st EXCEPT !.ac[x] = @ + 1]
    ELSE [st EXCEPT !.panic = TRUE]
AddAllele(st, x) ==
    IF x \in DOMAIN st.ac
    THEN [st EXCEPT !.an = @ + 1, !.ac[x] = @ + 1]
    ELSE [st EXCEPT !.an = @ + 1, !.panic = TRUE]

\* the match (a0, a1) of the diploid branch: the counter it increments
DiploidCategory_PartialIsMissing(a0, a1) ==
    IF a0 = None /\ a1 = None THEN "n_miss"
    ELSE IF a0 # None /\ a1 # None /\ a0 = a1 /\ a0 = 0 THEN "n_homref"
    ELSE IF a0 # None /\ a1 # None /\ a0 = a1 /\ a0 = 1 THEN "n_homalt"
    ELSE IF a0 # None /\ a1 # None THEN "n_het"
    ELSE "n_miss"
DiploidCategory_HetBeforeHomalt(a0, a1) ==
    IF a0 = None /\ a1 = None THEN "n_miss"
    ELSE IF a0 # None /\ a1 # None /\ a0 = a1 /\ a0 = 0 THEN "n_homref"
    ELSE IF a0 # None /\ a1 # None THEN "n_het"
    ELSE "n_hemi"
DiploidCategory(a0, a1) ==
    IF a0 = None /\ a1 = None THEN "n_miss"
    ELSE IF a0 # None /\ a1 # None /\ a0 = a1 /\ a0 = 0 THEN "n_homref"
    ELSE IF a0 # None /\ a1 # None /\ a0 = a1 /\ a0 = 1 THEN "n_homalt"
    ELSE IF a0 # None /\ a1 # None THEN "n_het"
    ELSE "n_hemi"

Bump(st, counter) == [st EXCEPT ![counter] = @ + 1]

\* the body of `for g in genotypes`
calc_af_step(st, g) ==
    IF g = NoneGt THEN Bump(st, "n_miss")
    ELSE IF g[2] = None
    THEN IF g[1] = None THEN Bump(st, "n_miss")
         ELSE LET s1 == AddAllele(st, g[1])
              IN IF s1.panic THEN s1 ELSE Bump(s1, "n_hemi")
    ELSE LET s1 == IF g[1] # None THEN AddAllele(st, g[1]) ELSE st
             s2 == IF s1.panic THEN s1
                   ELSE IF g[2] # None THEN AddAllele(s1, g[2]) ELSE s1
         IN IF s2.panic THEN s2
            ELSE Bump(s2, DiploidCategory(g[1], g[2]))

RECURSIVE calc_af_fold(_, _, _)
calc_af_fold(st, genotypes, i) ==
    IF i > Len(genotypes) \/ st.panic THEN st
    ELSE calc_af_fold(calc_af_step(st, genotypes[i]), genotypes, i + 1)

\* calc_af: the fold, then the derived values when an > 0
calc_af(genotypes) ==
    LET st == calc_af_fold(AfDefault, genotypes, 1)
    IN IF st.panic \/ st.an = 0 THEN st
       ELSE LET mac == Min(st.ac[0], st.ac[1])
                h == calc_hwe(st.ac[0], st.ac[1], st.n_het)
            IN [st EXCEPT !.af = Ratio(st.ac[1], st.an),
                          !.mac = mac,
                          !.maf = Ratio(mac, st.an),
                          !.exc_het = h.exc_het,
                          !.hwe = h.hwe,
                          !.wrapped = h.wrapped]

\* ------------------------------------------------------------ extraction
Range(s) == {s[i] : i \in DOMAIN s}

\* a.index() of one raw allele, narrowed by `idx as u8`
ExtractAllele(a) == IF a # Missing /\ a >= 0 THEN a % 256 ELSE None

\* pair = [None, None]; for (i, a) in alleles.iter().take(2).enumerate()
ExtractPair(alleles) ==
    [i \in 1..2 |-> IF i <= Len(alleles) THEN ExtractAllele(alleles[i])
                    ELSE None]

\* gt_vec.push(None) when both slots are None, else gt_vec.push(Some(pair))
ExtractCall(alleles) ==
    LET pair == ExtractPair(alleles)
    IN IF \A i \in 1..2 : pair[i] = None THEN NoneGt ELSE pair

RECURSIVE ExtractFrom(_, _, _)
ExtractFrom(gts, mask, i) ==
    IF i > Len(gts) THEN <<>>
    ELSE IF ~mask[i] THEN ExtractFrom(gts, mask, i + 1)
    ELSE <<ExtractCall(gts[i])>> \o ExtractFrom(gts, mask, i + 1)

RECURSIVE ExtractFrom_DropMissing(_, _, _)
ExtractFrom_DropMissing(gts, mask, i) ==
    IF i > Len(gts) THEN <<>>
    ELSE IF ~mask[i] \/ ExtractCall(gts[i]) = NoneGt
    THEN ExtractFrom_DropMissing(gts, mask, i + 1)
    ELSE <<ExtractCall(gts[i])>> \o ExtractFrom_DropMissing(gts, mask, i + 1)

\* the gt_vec of one group: the calls of the samples its mask selects
ExtractMasked_DropMissing(gts, mask) == ExtractFrom_DropMissing(gts, mask, 1)
ExtractMasked(gts, mask) == ExtractFrom(gts, mask, 1)

\* ---------------------------------------------------------- labels, masks
\* group_map.entry(rec.group).or_default().push(rec.sample), row by row
GroupMapOf(rows) ==
    [g \in {rows[i][2] : i \in DOMAIN rows} |->
        LET sel == SelectSeq(rows, LAMBDA r : r[2] = g)
        IN [i \in 1..Len(sel) |-> sel[i][1]]]

\* group_map.keys() in the HashMap's iteration order: any order
Orders(S) ==
    {o \in [1..Cardinality(S) -> S] :
        \A i, j \in 1..Cardinality(S) : i # j => o[i] # o[j]}

\* masks[grp][i] iff samples[i] is in the group's list
BuildMasks(gm, samps) ==
    [g \in DOMAIN gm |->
        [i \in 1..Len(samps) |-> samps[i] \in Range(gm[g])]]

\* ------------------------------------------------------------------ tags
all_tags ==
    <<"AF", "MAF", "ExcHet", "HWE", "MAC", "AC", "AN", "N_HEMI", "N_MISS",
      "N_HOMREF", "N_HET", "N_HOMALT">>

\* opts.tags == "all" ? all_tags : opts.tags.split(',')
WantTags(tags) == IF tags = <<"all">> THEN all_tags ELSE tags

\* format!("{t}_{grp}")
FullName(t, grp) == t \o "_" \o grp

\* one ##INFO line; desc is "{t} on {count} {grp} samples"
InfoLine(t, grp, count) ==
    IF t \in {"AC", "MAC"}
    THEN [id |-> FullName(t, grp), num |-> "A",
          typ |-> IF t = "AC" \/ t = "MAC" THEN "Integer" ELSE "Float",
          desc |-> [t |-> t, count |-> count, grp |-> grp]]
    ELSE [id |-> FullName(t, grp), num |-> "1",
          typ |-> IF t \in {"AF", "MAF", "ExcHet", "HWE"} THEN "Float"
                  ELSE "Integer",
          desc |-> [t |-> t, count |-> count, grp |-> grp]]

\* for grp in &groups { count = group_map[grp].len(); for t in &want_tags }
DeclareHeader(grps, gm, want) ==
    [k \in 1..(Len(grps) * Len(want)) |->
        LET grp == grps[((k - 1) \div Len(want)) + 1]
            t == want[((k - 1) % Len(want)) + 1]
        IN InfoLine(t, grp, Len(gm[grp]))]

\* the tags the per-record match has an arm for
PushedTags ==
    {"AC", "MAC", "AN", "N_HEMI", "N_MISS", "N_HOMREF", "N_HET", "N_HOMALT",
     "AF", "MAF", "ExcHet", "HWE"}

\* the value slice handed to push_info_integer / push_info_float
TagValues(tag, st) ==
    CASE tag = "AC" -> <<st.ac[1]>>
      [] tag = "MAC" -> <<st.mac>>
      [] tag = "AN" -> <<st.an>>
      [] tag = "N_HEMI" -> <<st.n_hemi>>
      [] tag = "N_MISS" -> <<st.n_miss>>
      [] tag = "N_HOMREF" -> <<st.n_homref>>
      [] tag = "N_HET" -> <<st.n_het>>
      [] tag = "N_HOMALT" -> <<st.n_homalt>>
      [] tag = "AF" -> <<st.af>>
      [] tag = "MAF" -> <<st.maf>>
      [] tag = "ExcHet" -> <<st.exc_het>>
      [] tag = "HWE" -> <<st.hwe>>

\* one arm of `match *tag`: the INFO entry replaces any entry of that key
PushTag(info, tag, grp, st) ==
    IF tag \notin PushedTags THEN info
    ELSE LET full == FullName(tag, grp)
         IN {e \in info : e.key # full} \cup
            {[key |-> full,
              typ |-> IF tag \in {"AF", "MAF", "ExcHet", "HWE"}
                      THEN "Float" ELSE "Integer",
              vals |-> TagValues(tag, st)]}

RECURSIVE PushTags(_, _, _, _, _)
PushTags(info, want, grp, st, i) ==
    IF i > Len(want) THEN info
    ELSE PushTags(PushTag(info, want[i], grp, st), want, grp, st, i + 1)

\* ------------------------------------------------------------------ state
VARIABLES
    pc,          \* where main is
    opts,        \* Opts: tags, strict
    group_map,   \* group -> samples of its label rows, in row order
    groups,      \* Vec of the group names
    samples,     \* the VCF header's sample order
    masks,       \* group -> Vec<bool> over samples
    want_tags,   \* the tags to write
    out_hdr,     \* the INFO lines pushed onto the output header
    writer_open, \* the Writer exists (the header is on the output)
    n_fetched,   \* items the record iterator has yielded
    rec,         \* the record being annotated
    gi,          \* next index of `for grp in &groups`
    stats,       \* the AfStats of the group just aggregated
    output,      \* the records written, each as keys, types and value counts
    err          \* the stage that failed

vars ==
    <<pc, opts, group_map, groups, samples, masks, want_tags, out_hdr,
      writer_open, n_fetched, rec, gi, stats, output, err>>

NoRec == [n_alt |-> 0, gts |-> <<>>, info |-> {}, annotated |-> {}]
NoMap == [g \in {} |-> <<>>]

Init ==
    /\ pc = "load_labels"
    /\ opts \in [tags : TagSelections, strict : BOOLEAN]
    /\ group_map = NoMap
    /\ groups = <<>>
    /\ samples = <<>>
    /\ masks = NoMap
    /\ want_tags = <<>>
    /\ out_hdr = <<>>
    /\ writer_open = FALSE
    /\ n_fetched = 0
    /\ rec = NoRec
    /\ gi = 1
    /\ stats = AfDefault
    /\ output = <<>>
    /\ err = "none"

\* return Err(..) from main, or a panic: every local is dropped
Abort(kind, stage) ==
    /\ pc' = kind
    /\ err' = stage
    /\ rec' = NoRec
    /\ gi' = 1
    /\ stats' = AfDefault
    /\ UNCHANGED <<opts, group_map, groups, samples, masks, want_tags,
                   out_hdr, writer_open, n_fetched, output>>

\* read the label file (or fail to open it, or to parse a row)
LoadLabels ==
    /\ pc = "load_labels"
    /\ \/ \E rows \in LabelFiles :
            /\ group_map' = GroupMapOf(rows)
            /\ groups' \in Orders(DOMAIN GroupMapOf(rows))
            /\ pc' = "open_vcf"
            /\ UNCHANGED <<opts, samples, masks, want_tags, out_hdr,
                           writer_open, n_fetched, rec, gi, stats, output,
                           err>>
       \/ Abort("error", "labels")

\* open the VCF and read its header's samples
OpenVcf ==
    /\ pc = "open_vcf"
    /\ \/ /\ samples' = DatasetSamples
          /\ pc' = "strict_check"
          /\ UNCHANGED <<opts, group_map, groups, masks, want_tags, out_hdr,
                         writer_open, n_fetched, rec, gi, stats, output,
                         err>>
       \/ Abort("error", "vcf")

\* if opts.strict { for (s, _) in group_map.values().flat_map(..) {
\*     if !samples.contains(s) { bail!(..) } } }
\* With strict off the block is skipped. With strict on, what the loop
\* looks up is not fixed by the source: its pattern `(s, _)` is a pair and
\* its items are the sample names, which does not type-check, and the
\* readings that do (the items bound as they are; the pair kept and
\* group_map itself iterated) look up different names. Every reading leaves
\* the block through its bail!, inside a loop over group_map's contents, or
\* past its end: a strict run takes either exit.
StrictCheck ==
    /\ pc = "strict_check"
    /\ \/ /\ pc' = "build_masks"
          /\ UNCHANGED <<opts, group_map, groups, samples, masks, want_tags,
                         out_hdr, writer_open, n_fetched, rec, gi, stats,
                         output, err>>
       \/ /\ opts.strict
          /\ DOMAIN group_map # {}
          /\ Abort("error", "strict")

BuildMasksStep ==
    /\ pc = "build_masks"
    /\ masks' = BuildMasks(group_map, samples)
    /\ pc' = "header"
    /\ UNCHANGED <<opts, group_map, groups, samples, want_tags, out_hdr,
                   writer_open, n_fetched, rec, gi, stats, output, err>>

DeclareHeaderStep ==
    /\ pc = "header"
    /\ want_tags' = WantTags(opts.tags)
    /\ out_hdr' = DeclareHeader(groups, group_map, WantTags(opts.tags))
    /\ pc' = "open_writer"
    /\ UNCHANGED <<opts, group_map, groups, samples, masks, writer_open,
                   n_fetched, rec, gi, stats, output, err>>

OpenWriter ==
    /\ pc = "open_writer"
    /\ \/ /\ writer_open' = TRUE
          /\ pc' = "fetch"
          /\ UNCHANGED <<opts, group_map, groups, samples, masks, want_tags,
                         out_hdr, n_fetched, rec, gi, stats, output, err>>
       \/ Abort("error", "writer")

\* one turn of `for rec_result in bcf.records()`, up to rec.genotypes()?
FetchRecord(Records) ==
    /\ pc = "fetch"
    /\ \/ /\ pc' = "done"
          /\ UNCHANGED <<opts, group_map, groups, samples, masks, want_tags,
                         out_hdr, writer_open, n_fetched, rec, gi, stats,
                         output, err>>
       \/ /\ n_fetched < MaxRecords
          /\ \E r \in Records :
                rec' = [n_alt |-> r.n_alt, gts |-> r.gts, info |-> {},
                        annotated |-> {}]
          /\ n_fetched' = n_fetched + 1
          /\ gi' = 1
          /\ pc' = "annotate"
          /\ UNCHANGED <<opts, group_map, groups, samples, masks, want_tags,
                         out_hdr, writer_open, stats, output, err>>
       \/ /\ n_fetched < MaxRecords
          /\ \E stage \in {"read", "genotypes"} :
                /\ pc' = "error"
                /\ err' = stage
          /\ n_fetched' = n_fetched + 1
          /\ UNCHANGED <<opts, group_map, groups, samples, masks, want_tags,
                         out_hdr, writer_open, rec, gi, stats, output>>

\* one turn of `for grp in &groups`: gt_vec, calc_af, the pushes
AnnotateGroup ==
    /\ pc = "annotate"
    /\ gi <= Len(groups)
    /\ LET grp == groups[gi]
           s == calc_af(ExtractMasked(rec.gts, masks[grp]))
       IN \E build \in {"debug", "release"} :
            IF s.panic \/ (s.wrapped /\ build = "debug")
            THEN Abort("panic", "calc_af")
            ELSE \/ /\ rec' = [rec EXCEPT
                                 !.info = PushTags(@, want_tags, grp, s, 1),
                                 !.annotated = @ \cup {grp}]
                    /\ stats' = s
                    /\ gi' = gi + 1
                    /\ UNCHANGED <<pc, opts, group_map, groups, samples,
                                   masks, want_tags, out_hdr, writer_open,
                                   n_fetched, output, err>>
                 \/ /\ \E i \in DOMAIN want_tags : want_tags[i] \in PushedTags
                    /\ Abort("error", "push_info")

\* what a written record shows: its keys, their types and value counts
Written(r) ==
    [n_alt |-> r.n_alt, annotated |-> r.annotated,
     info |-> {[key |-> e.key, typ |-> e.typ, n |-> Len(e.vals)] :
                 e \in r.info}]

\* writer.write(&rec)? after the last group
WriteRecord_InsideLoop ==
    /\ pc = "annotate"
    /\ \/ /\ output' = Append(output, Written(rec))
          /\ rec' = NoRec
          /\ gi' = 1
          /\ stats' = AfDefault
          /\ pc' = "fetch"
          /\ UNCHANGED <<opts, group_map, groups, samples, masks, want_tags,
                         out_hdr, writer_open, n_fetched, err>>
       \/ Abort("error", "write")
WriteRecord ==
    /\ pc = "annotate"
    /\ gi > Len(groups)
    /\ \/ /\ output' = Append(output, Written(rec))
          /\ rec' = NoRec
          /\ gi' = 1
          /\ stats' = AfDefault
          /\ pc' = "fetch"
          /\ UNCHANGED <<opts, group_map, groups, samples, masks, want_tags,
                         out_hdr, writer_open, n_fetched, err>>
       \/ Abort("error", "write")

FetchPipeline == FetchRecord(PipelineRecords)

Next ==
    \/ LoadLabels
    \/ OpenVcf
    \/ StrictCheck
    \/ BuildMasksStep
    \/ DeclareHeaderStep
    \/ OpenWriter
    \/ FetchPipeline
    \/ AnnotateGroup
    \/ WriteRecord

Spec == Init /\ [][Next]_vars

\* ------------------------------------------------- the record loop alone
\* main at the head of the record loop, for a three-sample dataset and the
\* label files of AfLabelFiles, as the phases above leave it
InitAf ==
    /\ pc = "fetch"
    /\ opts = [tags |-> <<"all">>, strict |-> FALSE]
    /\ \E rows \in AfLabelFiles : group_map = GroupMapOf(rows)
    /\ groups \in Orders(DOMAIN group_map)
    /\ samples = AfSamples
    /\ masks = BuildMasks(group_map, samples)
    /\ want_tags = WantTags(opts.tags)
    /\ out_hdr = DeclareHeader(groups, group_map, want_tags)
    /\ writer_open = TRUE
    /\ n_fetched = 0
    /\ rec = NoRec
    /\ gi = 1
    /\ stats = AfDefault
    /\ output = <<>>
    /\ err = "none"

FetchAf == FetchRecord(AfRecords)

NextAf ==
    \/ FetchAf
    \/ AnnotateGroup
    \/ WriteRecord

SpecAf == InitAf /\ [][NextAf]_vars

\* ================================================================ claims
\* The group whose turn of the group loop has just ended: `stats` is its
\* AfStats and rec.info holds its tags.
JustAggregated == pc = "annotate" /\ gi > 1
Grp == groups[gi - 1]
MaskedIdx(g) == {i \in DOMAIN samples : masks[g][i]}
\* the allele indices a raw call resolves in its first two slots
Resolved(call) == {call[i] : i \in 1..Min(2, Len(call))} \ {Missing}
BinaryCalls(g) == \A i \in MaskedIdx(g) : Resolved(rec.gts[i]) \subseteq {0, 1}
RemoveAt(s, i) == [j \in 1..(Len(s) - 1) |-> IF j < i THEN s[j] ELSE s[j + 1]]
IsPartial(call) ==
    /\ Len(call) = 2
    /\ \/ call[1] = Missing /\ call[2] \in {0, 1}
       \/ call[2] = Missing /\ call[1] \in {0, 1}
PartialAllele(call) == IF call[1] = Missing THEN call[2] ELSE call[1]
HeaderIds == {out_hdr[j].id : j \in DOMAIN out_hdr}

\* C1: when every masked call of a group carries only allele indices 0 and
\* 1, the five genotype categories of its AfStats add up to the number of
\* samples the group's mask selects.
C1_CategoriesCoverGroup ==
    (JustAggregated /\ BinaryCalls(Grp)) =>
        stats.n_hemi + stats.n_homref + stats.n_het + stats.n_homalt
            + stats.n_miss = Cardinality(MaskedIdx(Grp))

C1_Witness ==
    /\ JustAggregated
    /\ BinaryCalls(Grp)
    /\ Cardinality(MaskedIdx(Grp)) = 3
    /\ \E i \in MaskedIdx(Grp) : rec.gts[i] = <<Missing, 1>>
    /\ stats.n_miss = 1
    /\ stats.n_hemi = 1
    /\ stats.n_homalt = 1

\* C2: every written record carries a value, of the declared type, under
\* exactly the TAG_GROUP keys the output header declares.
C2_RecordKeysMatchHeader ==
    \A k \in DOMAIN output :
        /\ {e.key : e \in output[k].info} = HeaderIds
        /\ \A e \in output[k].info : \A j \in DOMAIN out_hdr :
              out_hdr[j].id = e.key => out_hdr[j].typ = e.typ

\* C3: in every written record a tag declared Number=A carries one value
\* per alternate allele of the record, and every other tag one value.
C3_ValueCountFollowsNumber ==
    \A k \in DOMAIN output : \A e \in output[k].info :
        \A j \in DOMAIN out_hdr :
            out_hdr[j].id = e.key =>
                e.n = IF out_hdr[j].num = "A" THEN output[k].n_alt ELSE 1

\* C4: no group's statistics are ever computed from a masked call that
\* carries an allele index of 2 or more: such a call is rejected, not counted.
C4_HighIndexNeverCounted ==
    JustAggregated => BinaryCalls(Grp)

\* C6: a record is written only after every group was aggregated and every
\* requested tag pushed; a failure in any stage of a variant leaves that
\* variant unwritten and ends the run.
C6_AllOrNothing ==
    /\ \A k \in DOMAIN output :
          /\ output[k].annotated = Range(groups)
          /\ \A g \in Range(groups) : \A i \in DOMAIN want_tags :
                want_tags[i] \in PushedTags =>
                    \E e \in output[k].info :
                        e.key = FullName(want_tags[i], g)
    /\ pc \in {"fetch", "done"} => Len(output) = n_fetched
    /\ pc = "annotate" => Len(output) = n_fetched - 1
    /\ (/\ pc \in {"error", "panic"}
        /\ err \in {"read", "genotypes", "calc_af", "push_info", "write"})
       => (Len(output) = n_fetched - 1 /\ ~ENABLED Next)

C6_Witness ==
    /\ pc = "error"
    /\ err = "push_info"
    /\ Len(groups) = 2
    /\ n_fetched = 2
    /\ Len(output) = 1

\* C7: the sample count in every declared descriptor's description is the
\* number of positions of the sample order that the group's mask selects.
C7_DescriptionCountIsGroupSize ==
    \A j \in DOMAIN out_hdr :
        out_hdr[j].desc.count = Cardinality(MaskedIdx(out_hdr[j].desc.grp))

\* C8: when every masked call carries only allele indices 0 and 1, the
\* allele number is the sum of the two allele counts.
C8_AlleleNumberIsSum ==
    (JustAggregated /\ BinaryCalls(Grp)) =>
        stats.an = stats.ac[0] + stats.ac[1]

C8_Witness ==
    /\ JustAggregated
    /\ BinaryCalls(Grp)
    /\ stats.an = 5
    /\ stats.ac[0] >= 2
    /\ stats.ac[1] >= 2
    /\ stats.n_miss = 0

\* C9: a two-slot call with exactly one resolved allele a adds 1 to an, to
\* ac[a] and to n_hemi and nothing to any other counter, whichever slot
\* holds a; the group's AfStats is the one a hemizygous call a would give.
C9_PartialCountsAsHemi ==
    JustAggregated =>
        \A i \in MaskedIdx(Grp) :
            IsPartial(rec.gts[i]) =>
                LET a == PartialAllele(rec.gts[i])
                    base == calc_af(ExtractMasked(RemoveAt(rec.gts, i),
                                                  RemoveAt(masks[Grp], i)))
                    hemi == calc_af(ExtractMasked(
                                [rec.gts EXCEPT ![i] = <<a>>], masks[Grp]))
                IN /\ stats.an = base.an + 1
                   /\ stats.ac[a] = base.ac[a] + 1
                   /\ stats.ac[1 - a] = base.ac[1 - a]
                   /\ stats.n_hemi = base.n_hemi + 1
                   /\ stats.n_miss = base.n_miss
                   /\ stats.n_homref = base.n_homref
                   /\ stats.n_het = base.n_het
                   /\ stats.n_homalt = base.n_homalt
                   /\ stats = hemi

C9_Witness ==
    /\ JustAggregated
    /\ \E i, j \in MaskedIdx(Grp) :
          /\ rec.gts[i] = <<Missing, 1>>
          /\ rec.gts[j] = <<0, Missing>>
    /\ stats.n_hemi = 2
    /\ stats.n_miss = 0

\* C10: whenever calc_hwe is called (an > 0, allele indices 0 and 1 only),
\* neither allele count is below the heterozygote count, so neither
\* unsigned subtraction of calc_hwe wraps.
C10_HweOperandsCoverHets ==
    (JustAggregated /\ BinaryCalls(Grp) /\ stats.an > 0) =>
        /\ stats.ac[0] >= stats.n_het
        /\ stats.ac[1] >= stats.n_het
        /\ ~stats.wrapped

C10_Witness ==
    /\ JustAggregated
    /\ BinaryCalls(Grp)
    /\ stats.n_het = 1
    /\ stats.ac[1] = 1
    /\ stats.n_hemi = 1
    /\ stats.n_miss = 1
====
